---- MODULE Spec2Model ----
(***************************************************************************)
(* Model of the reward aggregation pipeline of synth/validator/            *)
(* moving_average.py: prepare_df_for_moving_average (the dense score grid  *)
(* with the new-miner backfill) and compute_smoothed_score (window,        *)
(* per-asset coefficients, softmax, emission of reward records); of the    *)
(* time helpers of synth/utils/helpers.py; of Validator.forward_score; of  *)
(* the price path simulator; of the merge of the historical score table;   *)
(* of the cycle of Validator.forward_prompt; and of the retry loop of      *)
(* fetch_historical_data.                                                  *)
(* Each component has its own variables and its own specification;         *)
(* the variables of the components a specification does not run are off.   *)
(*                                                                         *)
(* Data representation.  A pandas cell that can be missing (NaN / None) is *)
(* a sequence of length 0 or 1: <<>> is the missing value, <<v>> holds v.  *)
(* A missing asset is the string "NaN".  Times are integers (days).        *)
(* Scores are integers (tenths); asset coefficients are per-mille.         *)
(***************************************************************************)
EXTENDS Integers, Sequences, FiniteSets, TLC

VARIABLES
    df,               \* the batch handed to prepare_df_for_moving_average
    grid,             \* the data frame it returns (input_df of the next stage)
    scored_time,      \* compute_smoothed_score argument
    window_days,      \* compute_smoothed_score argument
    softmax_beta,     \* compute_smoothed_score argument
    miner_uids,       \* the identity resolver: miner_id -> <<uid>> or <<>>
    normalized_scores, \* per miner, the series of line 163
    rolling_avg_data, \* the per-miner rolling averages (line 144)
    reward_weight_list, \* the softmax weights of the resolved miners (line 192)
    result,           \* what compute_smoothed_score returned
    pc,               \* position in the pipeline
    rounding,         \* a call of round_time_to_minutes: arguments and result
    timeout,          \* a call of Validator.wait_till_next_simulation
    validator,        \* Validator.forward_score: its locals and the weights sent
    simulation,       \* a call of simulate_crypto_price_paths
    storage,          \* a call of merge_and_save_data: the tables and the file
    prompt,           \* Validator.forward_prompt: its position, locals and trace
    fetch             \* a call of fetch_historical_data: attempts and result

pipelineVars ==
    <<df, grid, scored_time, window_days, softmax_beta, miner_uids,
      normalized_scores, rolling_avg_data, reward_weight_list, result, pc>>

vars ==
    <<pipelineVars, rounding, timeout, validator, simulation, storage, prompt,
      fetch>>

----------------------------------------------------------------------------
(* Bounds of the model *)

MaxRows == 3      \* records in a batch given to the grid builder
MaxGridRows == 2  \* rows of a grid given directly to compute_smoothed_score
MaxTime == 2      \* scoring epochs
MaxBeta == 2      \* softmax_beta values

MinerIds == {1, 2}
Times == 1..MaxTime

----------------------------------------------------------------------------
(* Generic helpers *)

Min(S) == CHOOSE x \in S : \A y \in S : x <= y

RECURSIVE SortedSeq(_)
\* the elements of a finite set of integers, ascending
SortedSeq(S) ==
    IF S = {} THEN <<>> ELSE LET m == Min(S) IN <<m>> \o SortedSeq(S \ {m})

RECURSIVE Flatten(_)
\* concatenation of a sequence of sequences
Flatten(ss) ==
    IF ss = <<>> THEN <<>> ELSE Head(ss) \o Flatten(Tail(ss))

Reverse(s) == [i \in 1..Len(s) |-> s[Len(s) + 1 - i]]

RECURSIVE SubsetsUpTo(_, _)
\* the subsets of U with at most n elements
SubsetsUpTo(U, n) ==
    IF n = 0 THEN {{}}
    ELSE LET prev == SubsetsUpTo(U, n - 1)
         IN  prev \cup {A \cup {x} : A \in prev, x \in U}

MapSeq(s, F(_)) == [i \in 1..Len(s) |-> F(s[i])]

----------------------------------------------------------------------------
(* prepare_df_for_moving_average *)

\* start_time is in minutes of 2025-11-18 (UTC): 11:53 and 14:08
exclude_start == 713
exclude_end == 848

\* variant: an interval open at its end
mask_exclude_open(r) == r.start_time >= exclude_start /\ r.start_time < exclude_end

mask_exclude(r) == r.start_time >= exclude_start /\ r.start_time <= exclude_end

\* df = df.loc[~mask_exclude]
Surviving(d) == SelectSeq(d, LAMBDA r : ~mask_exclude(r))

all_times(d) == {d[i].scored_time : i \in DOMAIN d}

global_min(d) == Min(all_times(d))

\* df.loc[df["scored_time"] == t].iloc[0]: the first row of the batch at t
sample(d, t) == d[Min({i \in DOMAIN d : d[i].scored_time = t})]

\* the times that get an entry in the three global mappings
MappedTimes(d) ==
    {t \in all_times(d) : sample(d, t).score_details_v3 # <<>>}

global_worst_score_mapping(d) ==
    [t \in MappedTimes(d) |->
        LET details == sample(d, t).score_details_v3[1]
        IN  details.percentile90 - details.lowest_score]

global_score_details_mapping(d) ==
    [t \in MappedTimes(d) |-> sample(d, t).score_details_v3]

global_score_asset_mapping(d) ==
    [t \in MappedTimes(d) |-> sample(d, t).asset]

miners(d) == {d[i].miner_id : i \in DOMAIN d}

miner_first(d, m) ==
    Min({d[i].scored_time : i \in {j \in DOMAIN d : d[j].miner_id = m}})

\* Series.map(mapping): the mapped value, or missing when t has no entry
MapScore(d, t) ==
    IF t \in MappedTimes(d) THEN <<global_worst_score_mapping(d)[t]>> ELSE <<>>

MapDetails(d, t) ==
    IF t \in MappedTimes(d) THEN global_score_details_mapping(d)[t] ELSE <<>>

MapAsset(d, t) ==
    IF t \in MappedTimes(d) THEN global_score_asset_mapping(d)[t] ELSE "NaN"

GridRow(r) ==
    [scored_time |-> r.scored_time, miner_id |-> r.miner_id,
     prompt_score_v3 |-> r.prompt_score_v3,
     score_details_v3 |-> r.score_details_v3, asset |-> r.asset]

\* variant: a merge that keeps one row per cell
MergedCell_first(d, m, t) ==
    LET hits == SelectSeq(d, LAMBDA r : r.miner_id = m /\ r.scored_time = t)
    IN  IF hits = <<>>
        THEN << [scored_time |-> t, miner_id |-> m, prompt_score_v3 |-> <<>>,
                 score_details_v3 |-> <<>>, asset |-> "NaN"] >>
        ELSE << [scored_time |-> t, miner_id |-> m,
                 prompt_score_v3 |-> hits[1].prompt_score_v3,
                 score_details_v3 |-> hits[1].score_details_v3,
                 asset |-> hits[1].asset] >>

\* step 4: the rows of the left merge for the cell (m, t): the records of the
\* batch at (m, t) in batch order, or one all-missing row
MergedCell(d, m, t) ==
    LET hits == SelectSeq(d, LAMBDA r : r.miner_id = m /\ r.scored_time = t)
    IN  IF hits = <<>>
        THEN << [scored_time |-> t, miner_id |-> m, prompt_score_v3 |-> <<>>,
                 score_details_v3 |-> <<>>, asset |-> "NaN"] >>
        ELSE MapSeq(hits, GridRow)

\* variant: the comparison of step 5 taken as >=
is_new_ge(d, m) == miner_first(d, m) >= global_min(d)

is_new(d, m) == miner_first(d, m) > global_min(d)

is_old(d, m) == miner_first(d, m) = global_min(d)

\* variant: a backfill that fills details and asset but not the score
Backfill_noscore(d, row) ==
    IF miner_first(d, row.miner_id) > global_min(d)
    THEN [row EXCEPT
            !.score_details_v3 = MapDetails(d, row.scored_time),
            !.asset = MapAsset(d, row.scored_time)]
    ELSE row

\* step 5: fillna on the score, overwrite of details and asset, new miners only
Backfill(d, row) ==
    IF is_new(d, row.miner_id)
    THEN [row EXCEPT
            !.prompt_score_v3 =
                IF row.prompt_score_v3 = <<>>
                THEN MapScore(d, row.scored_time) ELSE row.prompt_score_v3,
            !.score_details_v3 = MapDetails(d, row.scored_time),
            !.asset = MapAsset(d, row.scored_time)]
    ELSE row

was_missing(row) == row.prompt_score_v3 = <<>> /\ row.score_details_v3 = <<>>

\* variant: the drop of step 6 applied to every miner
mask_drop_all(d, row) == was_missing(row)

mask_drop(d, row) == is_old(d, row.miner_id) /\ was_missing(row)

\* steps 3-6 for one cell
OutCell(d, m, t) ==
    SelectSeq(MapSeq(MergedCell(d, m, t), LAMBDA row : Backfill(d, row)),
              LAMBDA row : ~mask_drop(d, row))

\* step 7: sorted by (scored_time, miner_id); the sort is stable
OutRows(d) ==
    LET ts == SortedSeq(all_times(d))
        ms == SortedSeq(miners(d))
    IN  Flatten([i \in 1..Len(ts) |->
            Flatten([j \in 1..Len(ms) |-> OutCell(d, ms[j], ts[i])])])

prepare_df_for_moving_average(batch) == OutRows(Surviving(batch))

----------------------------------------------------------------------------
(* compute_smoothed_score *)

RECURSIVE SumSeq(_)
SumSeq(s) == IF s = <<>> THEN 0 ELSE Head(s) + SumSeq(Tail(s))

RECURSIVE Pow2(_)
Pow2(n) == IF n = 0 THEN 1 ELSE 2 * Pow2(n - 1)

\* the coefficient table, per-mille
asset_coefficients == [BTC |-> 1000, ETH |-> 621, XAU |-> 1455, SOL |-> 502]

\* the rows of one miner, in grid order (groupby("miner_id"))
group_df(g, m) == SelectSeq(g, LAMBDA r : r.miner_id = m)

\* variant: a window closed on the left
mask_closed(t, st, w) == t >= st - w /\ t <= st

\* (scored_time > min_time) & (scored_time <= scored_time argument)
mask(t, st, w) == t > st - w /\ t <= st

window_df(g, m, st, w) ==
    SelectSeq(group_df(g, m), LAMBDA r : mask(r.scored_time, st, w))

\* window_df[["prompt_score_v3", "asset"]].dropna()
valid_scores(g, m, st, w) ==
    SelectSeq(window_df(g, m, st, w),
              LAMBDA r : r.prompt_score_v3 # <<>> /\ r.asset # "NaN")

\* variant: no row is multiplied by its coefficient
ScaledScore_unscaled(r) == r.prompt_score_v3[1] * 1000

\* the loop over the table multiplies the rows of each listed asset by its
\* coefficient; a row of any other asset is left as it is (factor 1.0)
ScaledScore(r) ==
    r.prompt_score_v3[1] *
        (IF r.asset \in DOMAIN asset_coefficients
         THEN asset_coefficients[r.asset] ELSE 1000)

\* variant: a fixed divisor instead of the coefficient-weighted row count
sum_coefficients_fixed(v) == IF v = <<>> THEN 0 ELSE 1000

\* sum over the listed assets of coef * (number of rows of that asset)
sum_coefficients(v) ==
    SumSeq([i \in 1..Len(v) |->
        IF v[i].asset \in DOMAIN asset_coefficients
        THEN asset_coefficients[v[i].asset] ELSE 0])

\* the returned series: row i is the fraction num / den; den = 0 is the float
\* division by 0.0 (inf for a positive numerator, NaN for 0.0 / 0.0)
apply_per_asset_coefficients(v) ==
    [i \in 1..Len(v) |-> [num |-> ScaledScore(v[i]), den |-> sum_coefficients(v)]]

Finite(n, d) == [kind |-> "finite", num |-> n, den |-> d]
Infinity == [kind |-> "inf", num |-> 0, den |-> 1]

\* float(window_df.sum()): Series.sum skips NaN entries
SeriesSum(series) ==
    LET den == series[1].den
        total == SumSeq([i \in 1..Len(series) |-> series[i].num])
    IN  IF den > 0 THEN Finite(total, den)
        ELSE IF total > 0 THEN Infinity
        ELSE Finite(0, 1)

\* variant: a miner without valid scores gets 0 instead of infinity
rolling_avg_zero(g, m, st, w) ==
    LET series == apply_per_asset_coefficients(valid_scores(g, m, st, w))
    IN  IF series # <<>> THEN SeriesSum(series) ELSE Finite(0, 1)

rolling_avg(g, m, st, w) ==
    LET series == apply_per_asset_coefficients(valid_scores(g, m, st, w))
    IN  IF series # <<>> THEN SeriesSum(series) ELSE Infinity

\* line 163: for each miner of the grid, the series returned for its slice
NormalizedScores(g, st, w) ==
    [m \in {g[i].miner_id : i \in DOMAIN g} |->
        apply_per_asset_coefficients(valid_scores(g, m, st, w))]

\* one entry per miner of the grid, in ascending miner_id order
RollingAvgData(g, st, w) ==
    LET ms == SortedSeq({g[i].miner_id : i \in DOMAIN g})
    IN  [i \in 1..Len(ms) |->
            [miner_id |-> ms[i], rolling_avg |-> rolling_avg(g, ms[i], st, w)]]

\* MinerDataHandler.populate_miner_uid_in_miner_data: adds the resolved uid
populate_miner_uid_in_miner_data(data, uids) ==
    [i \in 1..Len(data) |->
        [miner_id |-> data[i].miner_id, rolling_avg |-> data[i].rolling_avg,
         miner_uid |-> uids[data[i].miner_id]]]

\* variant: the items with a None uid are kept
filtered_moving_averages_data_all(data, uids) ==
    populate_miner_uid_in_miner_data(data, uids)

filtered_moving_averages_data(data, uids) ==
    SelectSeq(populate_miner_uid_in_miner_data(data, uids),
              LAMBDA item : item.miner_uid # <<>>)

\* Fixed-point arithmetic of the softmax: a logit is kept in steps of
\* 1 / LogitSteps, and a term more than ExpRange steps below the largest
\* underflows to exactly 0.  Powers of two stand for the exponential.
LogitSteps == 4
ExpRange == 8

Logit(x, beta) == (beta * x.num * LogitSteps) \div x.den

\* w_i = exp(-beta x_i) / sum_j exp(-beta x_j), the largest logit subtracted
\* first; the weights are fractions num / den, or NaN
compute_softmax(xs, beta) ==
    LET fin == {i \in 1..Len(xs) : xs[i].kind = "finite"}
        low == Min({Logit(xs[i], beta) : i \in fin})
        e(i) == IF i \notin fin THEN 0
                ELSE LET d == Logit(xs[i], beta) - low
                     IN  IF d > ExpRange THEN 0 ELSE Pow2(ExpRange - d)
        total == SumSeq([i \in 1..Len(xs) |-> e(i)])
    IN  [i \in 1..Len(xs) |->
            IF fin = {} THEN [nan |-> TRUE, num |-> 0, den |-> 1]
            ELSE [nan |-> FALSE, num |-> e(i), den |-> total]]

\* float(reward_weight) > 0; NaN > 0 is False
Positive(wt) == ~wt.nan /\ wt.num > 0

\* lines 188-194: the weights, in the order of the filtered data
RewardWeightList(data, uids, beta) ==
    LET items == filtered_moving_averages_data(data, uids)
    IN  compute_softmax([i \in 1..Len(items) |-> items[i].rolling_avg], beta)

\* variant: the softmax taken over all miners, unresolved ones removed after it
Rewards_late_filter(data, uids, st, beta) ==
    LET items == populate_miner_uid_in_miner_data(data, uids)
        weights ==
            compute_softmax([i \in 1..Len(items) |-> items[i].rolling_avg], beta)
        idx == SelectSeq([i \in 1..Len(items) |-> i],
                         LAMBDA i : items[i].miner_uid # <<>>
                                    /\ Positive(weights[i]))
    IN  [k \in 1..Len(idx) |->
            [miner_id |-> items[idx[k]].miner_id,
             miner_uid |-> items[idx[k]].miner_uid,
             smoothed_score |-> items[idx[k]].rolling_avg,
             reward_weight |-> weights[idx[k]],
             updated_at |-> st]]

\* lines 196-212
Rewards(data, uids, st, beta) ==
    LET items == filtered_moving_averages_data(data, uids)
        weights == RewardWeightList(data, uids, beta)
        idx == SelectSeq([i \in 1..Len(items) |-> i],
                         LAMBDA i : Positive(weights[i]))
    IN  [k \in 1..Len(idx) |->
            [miner_id |-> items[idx[k]].miner_id,
             miner_uid |-> items[idx[k]].miner_uid,
             smoothed_score |-> items[idx[k]].rolling_avg,
             reward_weight |-> weights[idx[k]],
             updated_at |-> st]]

\* variant: no early return for an empty input
compute_smoothed_score_list(uids, input_df, w, st, beta) ==
    [kind |-> "list",
     rewards |-> Rewards(RollingAvgData(input_df, st, w), uids, st, beta)]

\* the value returned: None for an empty input, else the list of rewards
compute_smoothed_score(uids, input_df, w, st, beta) ==
    IF input_df = <<>>
    THEN [kind |-> "None", rewards |-> <<>>]
    ELSE [kind |-> "list",
          rewards |-> Rewards(RollingAvgData(input_df, st, w), uids, st, beta)]

----------------------------------------------------------------------------
(* The batches the grid builder is run on *)

Assets == {"BTC", "ETH"}

\* score details are statistics of the prompt (asset, time), shared by its miners
DetailOf(a, t) ==
    [percentile90 |-> 8 + t + (IF a = "ETH" THEN 2 ELSE 0), lowest_score |-> 2]

\* the score of miner m for the prompt (a, t), in tenths: 5, 3 for miner 1 and
\* 4, 2 for miner 2 at times 1, 2
ScoreOf(m, t) == IF 8 - m - 2 * t > 0 THEN 8 - m - 2 * t ELSE 0

\* a record of the miner_scores table; has_score / has_details say which of the
\* two nullable columns are filled
Record(m, t, a, has_score, has_details) ==
    [miner_id |-> m, scored_time |-> t, asset |-> a,
     start_time |-> exclude_start - 1,
     prompt_score_v3 |-> IF has_score THEN <<ScoreOf(m, t)>> ELSE <<>>,
     score_details_v3 |-> IF has_details THEN <<DetailOf(a, t)>> ELSE <<>>]

\* one record per (miner_id, asset, scored_time)
Triples == MinerIds \X Times \X Assets

TripleCode(k) ==
    (k[1] * (MaxTime + 1) + k[2]) * 2 + (IF k[3] = "ETH" THEN 1 ELSE 0)

\* the batch holding the records S (a set of triples) with the nullable columns
\* filled as f says, in ascending triple order or, when rev, in descending order
BatchOf(S, f, rev) ==
    LET codes == SortedSeq({TripleCode(k) : k \in S})
        keyOf(c) == CHOOSE k \in S : TripleCode(k) = c
        rows == [i \in 1..Len(codes) |->
                    LET k == keyOf(codes[i])
                    IN  Record(k[1], k[2], k[3], f[k][1], f[k][2])]
    IN  IF rev THEN Reverse(rows) ELSE rows

----------------------------------------------------------------------------
(* The pipeline *)

NoResult == [kind |-> "pending", rewards |-> <<>>]

\* a component that is not running
Off == [pc |-> "off"]

\* the components other than the pipeline are off
OthersOff ==
    /\ rounding = Off
    /\ timeout = Off
    /\ validator = Off
    /\ simulation = Off
    /\ storage = Off
    /\ prompt = Off
    /\ fetch = Off

\* the pipeline is off
PipelineOff ==
    /\ df = <<>>
    /\ grid = <<>>
    /\ scored_time = 0
    /\ window_days = 0
    /\ softmax_beta = 0
    /\ miner_uids = <<>>
    /\ normalized_scores = <<>>
    /\ rolling_avg_data = <<>>
    /\ reward_weight_list = <<>>
    /\ result = NoResult
    /\ pc = "off"

InitGrid ==
    /\ \E S \in SubsetsUpTo(Triples, MaxRows) :
         \E f \in [S -> BOOLEAN \X BOOLEAN], rev \in BOOLEAN :
            df = BatchOf(S, f, rev)
    /\ grid = <<>>
    /\ scored_time = MaxTime
    /\ window_days = 10
    /\ softmax_beta = 1
    /\ miner_uids = [m \in MinerIds |-> <<m>>]
    /\ normalized_scores = <<>>
    /\ rolling_avg_data = <<>>
    /\ reward_weight_list = <<>>
    /\ result = NoResult
    /\ pc = "start"
    /\ OthersOff

\* prepare_df_for_moving_average(df).  On a batch with no surviving record the
\* merge of step 4 joins an untyped empty time column to a datetime column;
\* whether pandas accepts that depends on its version, so both outcomes
\* (an exception, an empty grid) are possible.
PrepareDf ==
    /\ pc = "start"
    /\ IF Surviving(df) = <<>>
       THEN \/ /\ pc' = "error"
               /\ grid' = <<>>
            \/ /\ pc' = "prepared"
               /\ grid' = <<>>
       ELSE /\ pc' = "prepared"
            /\ grid' = prepare_df_for_moving_average(df)
    /\ UNCHANGED <<df, scored_time, window_days, softmax_beta, miner_uids,
                   normalized_scores, rolling_avg_data, reward_weight_list,
                   result>>
    /\ UNCHANGED <<rounding, timeout, validator, simulation, storage, prompt, fetch>>

\* compute_smoothed_score(miner_data_handler, grid, window_days, scored_time,
\* softmax_beta)
ComputeSmoothedScore ==
    /\ pc = "prepared"
    /\ pc' = "done"
    /\ normalized_scores' = NormalizedScores(grid, scored_time, window_days)
    /\ rolling_avg_data' =
         IF grid = <<>> THEN <<>>
         ELSE RollingAvgData(grid, scored_time, window_days)
    /\ reward_weight_list' =
         IF grid = <<>> THEN <<>>
         ELSE RewardWeightList(RollingAvgData(grid, scored_time, window_days),
                               miner_uids, softmax_beta)
    /\ result' = compute_smoothed_score(miner_uids, grid, window_days,
                                        scored_time, softmax_beta)
    /\ UNCHANGED <<df, grid, scored_time, window_days, softmax_beta, miner_uids>>
    /\ UNCHANGED <<rounding, timeout, validator, simulation, storage, prompt, fetch>>

NextGrid == PrepareDf

\* the grid builder on a batch
SpecGrid == InitGrid /\ [][NextGrid]_vars

NextPipeline == PrepareDf \/ ComputeSmoothedScore

\* the whole pipeline on a batch: grid builder, then smoothed scores
SpecPipeline == InitGrid /\ [][NextPipeline]_vars

----------------------------------------------------------------------------
(* The grid builder on batches with records inside and outside the black-out
   interval *)

\* start_time values: the minute before the interval, its two ends, the minute
\* after it
StartTimes == {exclude_start - 1, exclude_start, exclude_end, exclude_end + 1}

\* one BTC record per (miner_id, scored_time)
Pairs == MinerIds \X Times

PairCode(k) == k[1] * (MaxTime + 1) + k[2]

\* the batch holding one scored BTC record per pair of S, with a detail where h
\* says so and the start_time g gives, in ascending pair order
BlackoutBatchOf(S, h, g) ==
    LET codes == SortedSeq({PairCode(k) : k \in S})
        keyOf(c) == CHOOSE k \in S : PairCode(k) = c
    IN  [i \in 1..Len(codes) |->
            LET k == keyOf(codes[i])
            IN  [Record(k[1], k[2], "BTC", TRUE, h[k]) EXCEPT !.start_time = g[k]]]

InitBlackout ==
    /\ \E S \in SubsetsUpTo(Pairs, MaxRows) :
         \E h \in [S -> BOOLEAN], g \in [S -> StartTimes] :
            df = BlackoutBatchOf(S, h, g)
    /\ grid = <<>>
    /\ scored_time = MaxTime
    /\ window_days = 10
    /\ softmax_beta = 1
    /\ miner_uids = [m \in MinerIds |-> <<m>>]
    /\ normalized_scores = <<>>
    /\ rolling_avg_data = <<>>
    /\ reward_weight_list = <<>>
    /\ result = NoResult
    /\ pc = "start"
    /\ OthersOff

SpecBlackout == InitBlackout /\ [][NextGrid]_vars

----------------------------------------------------------------------------
(* compute_smoothed_score on its own, over grids, windows, betas and
   identity resolutions *)

\* the (prompt_score_v3, asset) pairs of a grid row; "DOGE" is an asset the
\* coefficient table does not list
Payloads ==
    << <<<<4>>, "BTC">>, <<<<2>>, "BTC">>, <<<<4>>, "ETH">>,
       <<<<>>, "BTC">>, <<<<4>>, "DOGE">>, <<<<4>>, "NaN">> >>

Cells == MinerIds \X Times \X (1..Len(Payloads))

CellCode(c) == (c[2] * 3 + c[1]) * (Len(Payloads) + 1) + c[3]

\* the grid with the rows S, sorted by (scored_time, miner_id); the detail
\* column is not read by compute_smoothed_score and is left missing
GridOf(S) ==
    LET codes == SortedSeq({CellCode(c) : c \in S})
        cellOf(k) == CHOOSE c \in S : CellCode(c) = k
    IN  [i \in 1..Len(codes) |->
            LET c == cellOf(codes[i])
            IN  [scored_time |-> c[2], miner_id |-> c[1],
                 prompt_score_v3 |-> Payloads[c[3]][1],
                 score_details_v3 |-> <<>>,
                 asset |-> Payloads[c[3]][2]]]

WindowChoices == {1, 10}

InitScore ==
    /\ df = <<>>
    /\ \E S \in SubsetsUpTo(Cells, MaxGridRows) : grid = GridOf(S)
    /\ scored_time \in Times
    /\ window_days \in WindowChoices
    /\ softmax_beta \in 1..MaxBeta
    /\ miner_uids \in [MinerIds -> {<<>>, <<7>>}]
    /\ normalized_scores = <<>>
    /\ rolling_avg_data = <<>>
    /\ reward_weight_list = <<>>
    /\ result = NoResult
    /\ pc = "prepared"
    /\ OthersOff

NextScore == ComputeSmoothedScore

SpecScore == InitScore /\ [][NextScore]_vars

----------------------------------------------------------------------------
(* synth/utils/helpers.py: round_time_to_minutes and timeout_until *)

\* A datetime is a number of ticks since the midnight of day 0; a second has
\* TicksPerSecond ticks (the sub-second part of a datetime).
TicksPerSecond == 2
DaySeconds == 86400
DayTicks == DaySeconds * TicksPerSecond

\* dt.replace(hour=0, minute=0, second=0, microsecond=0)
midnight(dt) == dt - (dt % DayTicks)

\* variant: the next boundary at or after dt (a dt on a boundary stays)
next_interval_seconds_ceil(dt, in_seconds) ==
    (((dt - midnight(dt)) + in_seconds * TicksPerSecond - 1)
        \div (in_seconds * TicksPerSecond)) * in_seconds

\* ((seconds // rounding_interval.total_seconds()) + 1) * the interval, where
\* seconds = (dt - midnight).total_seconds()
next_interval_seconds(dt, in_seconds) ==
    (((dt - midnight(dt)) \div (in_seconds * TicksPerSecond)) + 1) * in_seconds

round_time_to_minutes(dt, in_seconds, extra_seconds) ==
    midnight(dt) + next_interval_seconds(dt, in_seconds) * TicksPerSecond
        + extra_seconds * TicksPerSecond

\* variant: the difference returned as it is
timeout_until_raw(until_time, current_time) == until_time - current_time

\* timeout_until, with current_time the clock read at line 172; the result is
\* in ticks
timeout_until(until_time, current_time) ==
    LET wait_time == until_time - current_time
    IN  IF wait_time > 0 THEN wait_time ELSE 0

\* the datetimes the helpers are called with: seconds of the day around
\* minute boundaries, 19:01:59 and the last second of the day, on two days,
\* at every tick of the second
SecondsOfDay == {0, 1, 59, 60, 61, 299, 300, 68519, 86399}

DateTimes ==
    {d * DayTicks + sec * TicksPerSecond + f :
        d \in {0, 1}, sec \in SecondsOfDay, f \in 0..(TicksPerSecond - 1)}

\* 7 does not divide a day
Intervals == {60, 120, 300, 7}
ExtraSeconds == {0, 60, 120}

InitRounding ==
    /\ PipelineOff
    /\ prompt = Off
    /\ fetch = Off
    /\ timeout = Off
    /\ validator = Off
    /\ simulation = Off
    /\ storage = Off
    /\ \E dt \in DateTimes, in_seconds \in Intervals, extra \in ExtraSeconds :
          rounding = [pc |-> "call", dt |-> dt, in_seconds |-> in_seconds,
                      extra_seconds |-> extra, rounded_time |-> 0]

RoundTimeToMinutes ==
    /\ rounding.pc = "call"
    /\ rounding' =
          [rounding EXCEPT
              !.pc = "returned",
              !.rounded_time = round_time_to_minutes(rounding.dt,
                                  rounding.in_seconds, rounding.extra_seconds)]
    /\ UNCHANGED <<pipelineVars, timeout, validator, simulation, storage, prompt, fetch>>

NextRounding == RoundTimeToMinutes

SpecRounding == InitRounding /\ [][NextRounding]_vars

\* Validator.wait_till_next_simulation(request_time, simulation_input_list):
\* the clock has advanced by `elapsed` ticks since request_time was taken
MaxInputs == 4

\* timedelta(minutes=60 / len(simulation_input_list)), in ticks
IterationTicks(n) == (3600 * TicksPerSecond) \div n

Elapsed(n) ==
    {0, 1, IterationTicks(n) - 1, IterationTicks(n), IterationTicks(n) + 1,
     2 * IterationTicks(n)}

InitTimeout ==
    /\ PipelineOff
    /\ prompt = Off
    /\ fetch = Off
    /\ rounding = Off
    /\ validator = Off
    /\ simulation = Off
    /\ storage = Off
    /\ \E request_time \in {0, 68519 * TicksPerSecond + 1, DayTicks - 1},
          n \in 1..MaxInputs :
          \E e \in Elapsed(n) :
             timeout = [pc |-> "call", request_time |-> request_time,
                        inputs |-> n, now |-> request_time + e,
                        next_iteration |-> 0, wait_time |-> 0, slept |-> 0]

\* lines 124-127: next_iteration and wait_time = timeout_until(next_iteration)
TimeoutUntil ==
    /\ timeout.pc = "call"
    /\ LET next_iteration == timeout.request_time + IterationTicks(timeout.inputs)
       IN  timeout' =
             [timeout EXCEPT
                 !.pc = "sleep",
                 !.next_iteration = next_iteration,
                 !.wait_time = timeout_until(next_iteration, timeout.now)]
    /\ UNCHANGED <<pipelineVars, rounding, validator, simulation, storage, prompt, fetch>>

\* line 132: await asyncio.sleep(wait_time)
Sleep ==
    /\ timeout.pc = "sleep"
    /\ timeout' = [timeout EXCEPT !.pc = "done", !.slept = timeout.wait_time,
                                  !.now = timeout.now + timeout.wait_time]
    /\ UNCHANGED <<pipelineVars, rounding, validator, simulation, storage, prompt, fetch>>

NextTimeout == TimeoutUntil \/ Sleep

SpecTimeout == InitTimeout /\ [][NextTimeout]_vars

----------------------------------------------------------------------------
(* neurons/validator.py: Validator.forward_score, called once per cycle of
   forward_prompt *)

MaxEpochs == 2    \* calls of forward_score
MaxRewards == 2   \* records in a list of rewards

\* reward weights, in units of the smallest one
RewardWeights == {1, 2}

\* the lists calculate_moving_average_and_update_rewards can return for the
\* epoch scored at st: up to MaxRewards reward records, possibly none
RewardLists(st) ==
    UNION {{[i \in 1..n |->
                [miner_id |-> i, miner_uid |-> 100 + i, smoothed_score |-> i,
                 reward_weight |-> ws[i], updated_at |-> st]]
            : ws \in [1..n -> RewardWeights]}
           : n \in 0..MaxRewards}

\* variant: the list is never taken to be empty
no_rewards_never(moving_averages_data) == FALSE

\* line 237: len(moving_averages_data) == 0
no_rewards(moving_averages_data) == Len(moving_averages_data) = 0

\* lines 246-256: the record appended for the subnet owner
owner_record(moving_averages_data, network, st) ==
    [miner_id |-> 0,
     miner_uid |-> IF network = "test" THEN 23 ELSE 248,
     smoothed_score |-> 0,
     reward_weight |->
        SumSeq([i \in 1..Len(moving_averages_data) |->
                    moving_averages_data[i].reward_weight]),
     updated_at |-> st]

InitForwardScore ==
    /\ PipelineOff
    /\ prompt = Off
    /\ fetch = Off
    /\ rounding = Off
    /\ timeout = Off
    /\ simulation = Off
    /\ storage = Off
    /\ \E network \in {"test", "finney"} :
          validator = [pc |-> "idle", epoch |-> 0, network |-> network,
                       timeout_extra_seconds |-> 60, scored_time |-> 0,
                       success |-> FALSE, returned |-> <<>>,
                       moving_averages_data |-> <<>>,
                       weights_history |-> <<>>, log |-> <<>>]

\* what one call of forward_score did, noted when it returns
Outcome(v, sent) ==
    [success |-> v.success, returned |-> v.returned,
     moving_averages_data |-> v.moving_averages_data, sent |-> sent]

\* lines 196-202: forward_score is entered and scored_time is computed
ForwardScore ==
    /\ validator.pc = "idle"
    /\ validator.epoch < MaxEpochs
    /\ \E current_time \in {68519 * TicksPerSecond + 1, DayTicks - 1} :
          validator' =
            [validator EXCEPT
                !.pc = "score",
                !.epoch = @ + 1,
                !.scored_time =
                    round_time_to_minutes(current_time, 60,
                                          validator.timeout_extra_seconds * 2),
                !.success = FALSE,
                !.returned = <<>>,
                !.moving_averages_data = <<>>]
    /\ UNCHANGED <<pipelineVars, rounding, timeout, simulation, storage, prompt, fetch>>

\* lines 213-221: calculate_rewards_and_update_scores reports success or not
CalculateRewardsAndUpdateScores ==
    /\ validator.pc = "score"
    /\ \E success \in BOOLEAN :
          LET v == [validator EXCEPT !.success = success]
          IN  validator' =
                IF ~success
                THEN [v EXCEPT !.pc = "idle", !.log = Append(@, Outcome(v, FALSE))]
                ELSE [v EXCEPT !.pc = "moving_average"]
    /\ UNCHANGED <<pipelineVars, rounding, timeout, simulation, storage, prompt, fetch>>

\* lines 229-238: calculate_moving_average_and_update_rewards returns a list
CalculateMovingAverageAndUpdateRewards ==
    /\ validator.pc = "moving_average"
    /\ \E data \in RewardLists(validator.scored_time) :
          LET v == [validator EXCEPT !.returned = data,
                                     !.moving_averages_data = data]
          IN  validator' =
                IF no_rewards(data)
                THEN [v EXCEPT !.pc = "idle", !.log = Append(@, Outcome(v, FALSE))]
                ELSE [v EXCEPT !.pc = "send"]
    /\ UNCHANGED <<pipelineVars, rounding, timeout, simulation, storage, prompt, fetch>>

\* lines 245-268: the owner record is appended and the weights are sent
SendWeights ==
    /\ validator.pc = "send"
    /\ LET data == Append(validator.moving_averages_data,
                          owner_record(validator.moving_averages_data,
                                       validator.network, validator.scored_time))
           v == [validator EXCEPT !.moving_averages_data = data]
       IN  validator' =
             [v EXCEPT !.pc = "idle",
                       !.weights_history = Append(@, data),
                       !.log = Append(@, Outcome(v, TRUE))]
    /\ UNCHANGED <<pipelineVars, rounding, timeout, simulation, storage, prompt, fetch>>

NextForwardScore ==
    \/ ForwardScore
    \/ CalculateRewardsAndUpdateScores
    \/ CalculateMovingAverageAndUpdateRewards
    \/ SendWeights

SpecForwardScore == InitForwardScore /\ [][NextForwardScore]_vars

----------------------------------------------------------------------------
(* neurons/validator.py: Validator.forward_prompt, one pass over the
   simulation inputs.  The calls it awaits are steps of its own coroutine;
   each one is noted in prompt.trace when it is made or when it returns.
   The miners found, the answer of should_skip_xau and the time the awaited
   calls take are inputs. *)

\* lines 69-95: the assets of self.simulation_input_list, in list order
simulation_input_list == <<"BTC", "ETH", "XAU", "SOL">>

\* the sets get_available_miners_and_update_metagraph_history can return
MinerUidSets == {{}, {1, 2}}

\* ticks an awaited forward_score can take: none, or more than one iteration
ScoreTicks == {0, IterationTicks(Len(simulation_input_list)) + 1}

\* an entry of the trace: the call, the input it was made for, and what the
\* call returned or was given (0 where that is of no interest)
Event(op, input, arg) == [op |-> op, input |-> input, arg |-> arg]

\* variant: the list of miners is never taken to be empty
no_miners_never(uids) == FALSE

\* line 147: len(miner_uids) == 0
no_miners(uids) == Cardinality(uids) = 0

\* line 163: should_skip_xau(start_time) and simulation_input.asset == "XAU"
skip_xau(closed, asset) == closed /\ asset = "XAU"

InitForwardPrompt ==
    /\ PipelineOff
    /\ rounding = Off
    /\ timeout = Off
    /\ validator = Off
    /\ simulation = Off
    /\ storage = Off
    /\ fetch = Off
    /\ prompt = [pc |-> "loop", index |-> 0, branch |-> "none",
                 timeout_extra_seconds |-> 60,
                 now |-> 68519 * TicksPerSecond + 1,
                 miner_uids |-> {}, request_time |-> 0, start_time |-> 0,
                 wait_time |-> 0,
                 start_times |-> [i \in DOMAIN simulation_input_list |-> <<>>],
                 trace |-> <<>>]

\* lines 135-147: the next input is taken and the available miners are read
GetAvailableMiners ==
    /\ prompt.pc = "loop"
    /\ prompt.index < Len(simulation_input_list)
    /\ \E uids \in MinerUidSets :
          prompt' =
            [prompt EXCEPT
                !.index = @ + 1,
                !.miner_uids = uids,
                !.branch = IF no_miners(uids) THEN "no_miners" ELSE "none",
                !.pc = IF no_miners(uids) THEN "forward_score" ELSE "request",
                !.trace = Append(@, Event("get_available_miners",
                                          prompt.index + 1,
                                          Cardinality(uids)))]
    /\ UNCHANGED <<pipelineVars, rounding, timeout, validator, simulation,
                   storage, fetch>>

\* lines 158-163: request_time, start_time and the test of the closed market
RoundRequestTime ==
    /\ prompt.pc = "request"
    /\ \E closed \in BOOLEAN :
          LET skip == skip_xau(closed, simulation_input_list[prompt.index])
          IN  prompt' =
                [prompt EXCEPT
                    !.request_time = prompt.now,
                    !.start_time =
                        round_time_to_minutes(prompt.now, 60,
                                              prompt.timeout_extra_seconds),
                    !.branch = IF skip THEN "skip_xau" ELSE "query",
                    !.pc = IF skip THEN "forward_score" ELSE "query",
                    !.trace = Append(@, Event("should_skip_xau", prompt.index,
                                              IF closed THEN 1 ELSE 0))]
    /\ UNCHANGED <<pipelineVars, rounding, timeout, validator, simulation,
                   storage, fetch>>

\* lines 180-188: start_time is put on the input, the miners are queried and
\* their responses saved; the awaited call has returned
QueryAvailableMinersAndSaveResponses ==
    /\ prompt.pc = "query"
    /\ prompt' =
         [prompt EXCEPT
             !.start_times[prompt.index] = <<prompt.start_time>>,
             !.now = @ + 1,
             !.pc = "forward_score",
             !.trace = Append(@, Event("query_available_miners_and_save_responses",
                                       prompt.index,
                                       Cardinality(prompt.miner_uids)))]
    /\ UNCHANGED <<pipelineVars, rounding, timeout, validator, simulation,
                   storage, fetch>>

\* lines 152, 168, 190: forward_score is called
CallForwardScore ==
    /\ prompt.pc = "forward_score"
    /\ prompt' =
         [prompt EXCEPT
             !.pc = "in_forward_score",
             !.trace = Append(@, Event("forward_score", prompt.index, 0))]
    /\ UNCHANGED <<pipelineVars, rounding, timeout, validator, simulation,
                   storage, fetch>>

\* lines 152, 168, 190: the awaited forward_score has returned
ForwardScoreReturns ==
    /\ prompt.pc = "in_forward_score"
    /\ \E e \in ScoreTicks :
          prompt' =
            [prompt EXCEPT
                !.now = @ + e,
                !.pc = "wait",
                !.trace = Append(@, Event("forward_score returned",
                                          prompt.index, 0))]
    /\ UNCHANGED <<pipelineVars, rounding, timeout, validator, simulation,
                   storage, fetch>>

\* lines 153-156, 169-172, 191-193 with lines 120-132: the wait for the next
\* simulation, counted from get_current_time() when no miner was available
\* and from request_time otherwise
WaitTillNextSimulation ==
    /\ prompt.pc = "wait"
    /\ LET request_time == IF prompt.branch = "no_miners" THEN prompt.now
                           ELSE prompt.request_time
           next_iteration ==
               request_time + IterationTicks(Len(simulation_input_list))
           wait_time == timeout_until(next_iteration, prompt.now)
       IN  prompt' =
             [prompt EXCEPT
                 !.wait_time = wait_time,
                 !.now = @ + wait_time,
                 !.pc = "loop",
                 !.trace = Append(@, Event("wait_till_next_simulation",
                                           prompt.index, wait_time))]
    /\ UNCHANGED <<pipelineVars, rounding, timeout, validator, simulation,
                   storage, fetch>>

\* line 134: the list is exhausted and forward_prompt returns
ForwardPromptReturns ==
    /\ prompt.pc = "loop"
    /\ prompt.index = Len(simulation_input_list)
    /\ prompt' = [prompt EXCEPT !.pc = "done"]
    /\ UNCHANGED <<pipelineVars, rounding, timeout, validator, simulation,
                   storage, fetch>>

NextForwardPrompt ==
    \/ GetAvailableMiners
    \/ RoundRequestTime
    \/ QueryAvailableMinersAndSaveResponses
    \/ CallForwardScore
    \/ ForwardScoreReturns
    \/ WaitTillNextSimulation
    \/ ForwardPromptReturns

SpecForwardPrompt == InitForwardPrompt /\ [][NextForwardPrompt]_vars

----------------------------------------------------------------------------
(* synth/miner/price_simulation.py: simulate_crypto_price_paths *)

MaxSimulations == 2   \* num_simulations
MaxLength == 3        \* time_length, in units of the smallest time_increment

TimeIncrements == {1, 2}
Prices == {1, 100}

\* The values np.random.normal can draw for a percentage change, in halves:
\* -1 is -0.5 and 1 is +0.5, whatever sigma is.  A float is a fraction num / den.
Returns == {-1, 1}

\* int(time_length / time_increment)
num_steps(time_increment, time_length) == time_length \div time_increment

RECURSIVE cumsum(_)
\* variant: the running sum of 1 + price_change_pcts
cumsum(pcts) ==
    IF pcts = <<>> THEN <<>>
    ELSE LET prev == cumsum(SubSeq(pcts, 1, Len(pcts) - 1))
             last == IF prev = <<>> THEN 0 ELSE prev[Len(prev)].num
         IN  Append(prev, [num |-> last + 2 + pcts[Len(pcts)], den |-> 2])

RECURSIVE cumprod(_)
\* np.cumprod(1 + price_change_pcts): element k is the product of the first k
\* factors 1 + r_i = (2 + pcts[i]) / 2
cumprod(pcts) ==
    IF pcts = <<>> THEN <<>>
    ELSE LET prev == cumprod(SubSeq(pcts, 1, Len(pcts) - 1))
             last == IF prev = <<>> THEN [num |-> 1, den |-> 1]
                     ELSE prev[Len(prev)]
         IN  Append(prev, [num |-> last.num * (2 + pcts[Len(pcts)]),
                           den |-> last.den * 2])

\* lines 59-61, for the percentage changes drawn at line 58
simulate_single_price_path(current_price, price_change_pcts) ==
    LET cumulative_returns ==
            <<[num |-> 1, den |-> 1]>> \o cumprod(price_change_pcts)
    IN  [k \in 1..Len(cumulative_returns) |->
            [num |-> current_price * cumulative_returns[k].num,
             den |-> cumulative_returns[k].den]]

InitSimulation ==
    /\ PipelineOff
    /\ prompt = Off
    /\ fetch = Off
    /\ rounding = Off
    /\ timeout = Off
    /\ validator = Off
    /\ storage = Off
    /\ \E current_price \in Prices, time_increment \in TimeIncrements,
          time_length \in 1..MaxLength, num_simulations \in 1..MaxSimulations :
          simulation = [pc |-> "loop", current_price |-> current_price,
                        time_increment |-> time_increment,
                        time_length |-> time_length,
                        num_simulations |-> num_simulations,
                        price_change_pcts |-> <<>>, price_paths |-> <<>>]

\* one iteration of the loop of lines 78-82: a fresh draw of num_steps
\* percentage changes and the path built from it
SimulateSinglePricePath ==
    /\ simulation.pc = "loop"
    /\ Len(simulation.price_paths) < simulation.num_simulations
    /\ \E pcts \in [1..num_steps(simulation.time_increment,
                                  simulation.time_length) -> Returns] :
          simulation' =
            [simulation EXCEPT
                !.price_change_pcts = Append(@, pcts),
                !.price_paths =
                    Append(@, simulate_single_price_path(
                                  simulation.current_price, pcts))]
    /\ UNCHANGED <<pipelineVars, rounding, timeout, validator, storage, prompt, fetch>>

\* line 84: return np.array(price_paths)
ReturnPricePaths ==
    /\ simulation.pc = "loop"
    /\ Len(simulation.price_paths) = simulation.num_simulations
    /\ simulation' = [simulation EXCEPT !.pc = "returned"]
    /\ UNCHANGED <<pipelineVars, rounding, timeout, validator, storage, prompt, fetch>>

NextSimulation == SimulateSinglePricePath \/ ReturnPricePaths

SpecSimulation == InitSimulation /\ [][NextSimulation]_vars

----------------------------------------------------------------------------
(* synth/backtest/fetch_historical_data.py: merge_and_save_data *)

MaxTable == 2   \* rows of a table given to merge_and_save_data

\* (miner_uid, asset, scored_time) values of the rows
StoreKeys == {<<1, "BTC", 1>>, <<2, "BTC", 1>>, <<1, "ETH", 1>>, <<1, "BTC", 2>>}

\* the tables with at most n rows, as sequences of keys
KeySeqs(n) == UNION {[1..k -> StoreKeys] : k \in 0..n}

\* the data frame with the rows ks; the crps column stamps every row with the
\* order in which it was written: base + its position
TableOf(ks, base) ==
    [i \in 1..Len(ks) |->
        [miner_uid |-> ks[i][1], asset |-> ks[i][2], scored_time |-> ks[i][3],
         crps |-> base + i]]

\* subset=['miner_uid', 'asset', 'scored_time']
SameTriple(r, q) ==
    r.miner_uid = q.miner_uid /\ r.asset = q.asset /\ r.scored_time = q.scored_time

\* the rows of t at the positions idx (ascending)
Rows(t, idx) == LET ix == SortedSeq(idx) IN [k \in 1..Len(ix) |-> t[ix[k]]]

\* variant: keep='first'
drop_duplicates_first(t) ==
    Rows(t, {i \in DOMAIN t : \A j \in 1..(i - 1) : ~SameTriple(t[i], t[j])})

\* drop_duplicates(subset=[...], keep='last'): a row stays when no later row has
\* its triple
drop_duplicates(t) ==
    Rows(t, {i \in DOMAIN t : \A j \in (i + 1)..Len(t) : ~SameTriple(t[i], t[j])})

\* sort_values('scored_time').reset_index(drop=True); rows of equal time keep
\* their order
sort_values(t) ==
    LET ts == SortedSeq({t[i].scored_time : i \in DOMAIN t})
    IN  Flatten([k \in 1..Len(ts) |->
                    SelectSeq(t, LAMBDA r : r.scored_time = ts[k])])

\* lines 161-178: existing_df is <<>> for None and <<table>> for a data frame
merge_and_save_data(existing_df, new_df) ==
    IF existing_df = <<>> \/ existing_df[1] = <<>>
    THEN new_df
    ELSE sort_values(drop_duplicates(existing_df[1] \o new_df))

InitStorage ==
    /\ PipelineOff
    /\ prompt = Off
    /\ fetch = Off
    /\ rounding = Off
    /\ timeout = Off
    /\ validator = Off
    /\ simulation = Off
    /\ \E ks \in KeySeqs(MaxTable), has_file \in BOOLEAN, ns \in KeySeqs(MaxTable) :
          /\ has_file \/ ks = <<>>
          /\ storage = [pc |-> "call",
                        existing_df |-> IF has_file THEN <<TableOf(ks, 0)>> ELSE <<>>,
                        new_df |-> TableOf(ns, 10),
                        merged_df |-> <<>>, file |-> <<>>]

\* merge_and_save_data(existing_df, new_df, filepath): the merge, the write of
\* the file (line 186) and the return
MergeAndSaveData ==
    /\ storage.pc = "call"
    /\ LET merged_df == merge_and_save_data(storage.existing_df, storage.new_df)
       IN  storage' = [storage EXCEPT !.pc = "returned",
                                      !.merged_df = merged_df,
                                      !.file = <<merged_df>>]
    /\ UNCHANGED <<pipelineVars, rounding, timeout, validator, simulation, prompt, fetch>>

NextStorage == MergeAndSaveData

SpecStorage == InitStorage /\ [][NextStorage]_vars

----------------------------------------------------------------------------
(* synth/backtest/fetch_historical_data.py: fetch_historical_data, the loop
   of attempts.  What one HTTP request leads to is an input: a list-shaped
   response, a response of another shape, a requests RequestException
   (raised by get, raise_for_status or json), or another exception. *)

MaxRetries == 3   \* largest max_retries; 3 is its default (line 29)

\* retry_delay, in seconds; 1 is its default (line 29), 0 is no delay
RetryDelays == {0, 1, 2}

\* the lists of records a response can hold
ResponseLists == {<<>>, <<1>>, <<1, 2>>}

\* what an attempt (lines 54-56) can lead to
Responses ==
    {[kind |-> "list", data |-> d] : d \in ResponseLists}
      \cup {[kind |-> k, data |-> <<>>]
            : k \in {"not a list", "RequestException", "Exception"}}

\* variant: another attempt is allowed after every failed one
retry_allowed_always(attempt, max_retries) == attempt < max_retries

\* line 68: attempt < max_retries - 1
retry_allowed(attempt, max_retries) == attempt < max_retries - 1

\* line 69: retry_delay * (attempt + 1)
sleep_seconds(retry_delay, attempt) == retry_delay * (attempt + 1)

\* the record of a call that returned value
Returned(f, value) ==
    [f EXCEPT !.pc = "returned", !.result = [kind |-> "list", value |-> value]]

InitFetch ==
    /\ PipelineOff
    /\ rounding = Off
    /\ timeout = Off
    /\ validator = Off
    /\ simulation = Off
    /\ storage = Off
    /\ prompt = Off
    /\ \E max_retries \in 0..MaxRetries, retry_delay \in RetryDelays :
          fetch = [pc |-> "attempt", max_retries |-> max_retries,
                   retry_delay |-> retry_delay, attempt |-> 0,
                   responses |-> <<>>, sleeps |-> <<>>,
                   result |-> [kind |-> "pending", value |-> <<>>]]

\* lines 52-75: one pass of the loop body, up to the sleep or the return
Request ==
    /\ fetch.pc = "attempt"
    /\ fetch.attempt < fetch.max_retries
    /\ \E response \in Responses :
          LET f == [fetch EXCEPT !.responses = Append(@, response)]
          IN  fetch' =
                CASE response.kind = "list" -> Returned(f, response.data)
                  [] response.kind = "not a list" -> Returned(f, <<>>)
                  [] response.kind = "RequestException" ->
                        IF retry_allowed(fetch.attempt, fetch.max_retries)
                        THEN [f EXCEPT !.pc = "sleep"]
                        ELSE Returned(f, <<>>)
                  [] response.kind = "Exception" -> Returned(f, <<>>)
    /\ UNCHANGED <<pipelineVars, rounding, timeout, validator, simulation,
                   storage, prompt>>

\* line 69 and line 52: the sleep ends and the loop takes the next attempt
RetrySleep ==
    /\ fetch.pc = "sleep"
    /\ fetch' =
         [fetch EXCEPT
             !.sleeps = Append(@, sleep_seconds(fetch.retry_delay, fetch.attempt)),
             !.attempt = @ + 1,
             !.pc = "attempt"]
    /\ UNCHANGED <<pipelineVars, rounding, timeout, validator, simulation,
                   storage, prompt>>

\* line 76: range(max_retries) is exhausted
LoopExhausted ==
    /\ fetch.pc = "attempt"
    /\ fetch.attempt >= fetch.max_retries
    /\ fetch' = Returned(fetch, <<>>)
    /\ UNCHANGED <<pipelineVars, rounding, timeout, validator, simulation,
                   storage, prompt>>

NextFetch == Request \/ RetrySleep \/ LoopExhausted

\* requests.get is given timeout=30 (line 54) and time.sleep is finite, so
\* a step that can be taken is taken
SpecFetch == InitFetch /\ [][NextFetch]_vars /\ WF_vars(NextFetch)

----------------------------------------------------------------------------
(* Properties of the grid returned by prepare_df_for_moving_average *)

\* the surviving batch, its times, its participants
\* (the helpers below take the surviving batch b as a parameter)
Batch == Surviving(df)
BatchTimes(b) == {b[i].scored_time : i \in DOMAIN b}
Participants(b) == {b[i].miner_id : i \in DOMAIN b}
T0(b) == Min(BatchTimes(b))
FirstSeen(b, m) ==
    Min({b[i].scored_time : i \in {j \in DOMAIN b : b[j].miner_id = m}})
IsNew(b, m) == FirstSeen(b, m) > T0(b)
IsEstablished(b, m) == FirstSeen(b, m) = T0(b)

\* the representative record at t: the first record of the batch at that time
Representative(b, t) ==
    b[Min({i \in DOMAIN b : b[i].scored_time = t})]

RecordsAt(b, m, t) ==
    {i \in DOMAIN b : b[i].miner_id = m /\ b[i].scored_time = t}
RowsAt(m, t) ==
    {i \in DOMAIN grid : grid[i].miner_id = m /\ grid[i].scored_time = t}

\* a grid was returned for a batch with surviving records
GridReturned(b) == pc \in {"prepared", "done"} /\ b # <<>>

\* the row i of the grid carries the worst-case score of the representative at t
HasWorstScore(b, i, t) ==
    /\ Representative(b, t).score_details_v3 # <<>>
    /\ grid[i].prompt_score_v3 =
         << Representative(b, t).score_details_v3[1].percentile90
            - Representative(b, t).score_details_v3[1].lowest_score >>

\* C1 as stated: every participant first seen at T1 > T0 has, at every batch
\* time t < T1, a row whose score is percentile90 - lowest_score of the
\* representative record at t, never null.
C1_Original ==
    LET b == Batch IN GridReturned(b) =>
        \A m \in Participants(b) : \A t \in BatchTimes(b) :
            (IsNew(b, m) /\ t < FirstSeen(b, m))
                => \E i \in RowsAt(m, t) : HasWorstScore(b, i, t)

\* C1 amended: the same for every batch time t < T1 whose representative
\* record has a non-null score_detail.
C1_Backfill ==
    LET b == Batch IN GridReturned(b) =>
        \A m \in Participants(b) : \A t \in BatchTimes(b) :
            (IsNew(b, m) /\ t < FirstSeen(b, m)
                /\ Representative(b, t).score_details_v3 # <<>>)
                => \E i \in RowsAt(m, t) : HasWorstScore(b, i, t)

C1_Witness ==
    /\ pc = "prepared"
    /\ Batch # <<>>
    /\ LET b == Batch IN \E m \in Participants(b) : \E t \in BatchTimes(b) :
          /\ IsNew(b, m)
          /\ t < FirstSeen(b, m)
          /\ \E i \in RowsAt(m, t) : HasWorstScore(b, i, t)

\* C2: an established participant (first seen at the global minimum) has no row
\* at a batch time at which it has no record, and each of its rows carries the
\* score of one of its own records at that time: no synthetic score.
C2_NoPenalty ==
    LET b == Batch IN GridReturned(b) =>
        \A m \in Participants(b) : IsEstablished(b, m) =>
            /\ \A t \in BatchTimes(b) : RecordsAt(b, m, t) = {} => RowsAt(m, t) = {}
            /\ \A i \in DOMAIN grid :
                  grid[i].miner_id = m =>
                     \E j \in RecordsAt(b, m, grid[i].scored_time) :
                        /\ grid[i].prompt_score_v3 = b[j].prompt_score_v3
                        /\ grid[i].score_details_v3 = b[j].score_details_v3
                        /\ grid[i].asset = b[j].asset

\* an established participant misses a time at which a worst-case score exists
C2_Witness ==
    /\ pc = "prepared"
    /\ Batch # <<>>
    /\ LET b == Batch IN \E m \in Participants(b) : \E t \in BatchTimes(b) :
          /\ IsEstablished(b, m)
          /\ RecordsAt(b, m, t) = {}
          /\ Representative(b, t).score_details_v3 # <<>>
          /\ RowsAt(m, t) = {}

\* the cells C9 is about: a new participant without a record at a time whose
\* representative record has a null score_detail
NullRepCell(b, m, t) ==
    /\ IsNew(b, m)
    /\ t \in BatchTimes(b)
    /\ Representative(b, t).score_details_v3 = <<>>
    /\ RecordsAt(b, m, t) = {}

\* C9 as stated: such a cell is dropped from the grid.
C9_Original ==
    LET b == Batch IN GridReturned(b) =>
        \A m \in Participants(b) : \A t \in BatchTimes(b) :
            NullRepCell(b, m, t) => RowsAt(m, t) = {}

\* C9 amended: the time has no global_worst_score entry and the cell stays in
\* the grid as one row whose score, detail and asset are all missing.
C9_NullRepresentative ==
    LET b == Batch IN GridReturned(b) =>
        \A m \in Participants(b) : \A t \in BatchTimes(b) :
            NullRepCell(b, m, t) =>
                /\ t \notin DOMAIN global_worst_score_mapping(b)
                /\ Cardinality(RowsAt(m, t)) = 1
                /\ \A i \in RowsAt(m, t) :
                      /\ grid[i].prompt_score_v3 = <<>>
                      /\ grid[i].score_details_v3 = <<>>
                      /\ grid[i].asset = "NaN"

C9_Witness ==
    /\ pc = "prepared"
    /\ Batch # <<>>
    /\ LET b == Batch IN \E m \in Participants(b) : \E t \in BatchTimes(b) :
          NullRepCell(b, m, t) /\ RowsAt(m, t) # {}

\* the records that hold an observation: a score or a detail
KeptRecordsAt(b, m, t) ==
    {j \in RecordsAt(b, m, t) :
        b[j].prompt_score_v3 # <<>> \/ b[j].score_details_v3 # <<>>}

\* C10 as stated: every (participant, time) pair appears at most once, and exactly
\* once unless it is a pair of an established participant with no observation.
C10_Original ==
    LET b == Batch IN GridReturned(b) =>
        \A m \in Participants(b) : \A t \in BatchTimes(b) :
            Cardinality(RowsAt(m, t)) =
                IF IsEstablished(b, m) /\ KeptRecordsAt(b, m, t) = {} THEN 0 ELSE 1

\* C10 amended: a pair of a new participant appears once per record it has at
\* that time and once when it has none; a pair of an established participant
\* appears once per record whose score and detail are not both missing.
C10_CellMultiplicity ==
    LET b == Batch IN GridReturned(b) =>
        \A m \in Participants(b) : \A t \in BatchTimes(b) :
            Cardinality(RowsAt(m, t)) =
                IF IsEstablished(b, m)
                THEN Cardinality(KeptRecordsAt(b, m, t))
                ELSE IF RecordsAt(b, m, t) = {} THEN 1
                     ELSE Cardinality(RecordsAt(b, m, t))

\* one participant has two rows at one time (records for two assets)
C10_Witness ==
    /\ pc = "prepared"
    /\ LET b == Batch IN \E m \in Participants(b) : \E t \in BatchTimes(b) :
          Cardinality(RowsAt(m, t)) = 2

\* the records of the batch with start_time outside the closed black-out
\* interval, in batch order
InBlackout(r) == r.start_time \in exclude_start..exclude_end
OutsideBlackout == SelectSeq(df, LAMBDA r : ~InBlackout(r))

\* C11: the records with start_time in the closed black-out interval produce no
\* row and contribute to nothing: the grid is the one built from the other
\* records alone (their times, their minimum, their first-seen times, their
\* representatives), and every record outside the interval is still there.
C11_BlackoutExclusion ==
    LET b == OutsideBlackout IN
        /\ (pc = "prepared" /\ b = <<>>) => grid = <<>>
        /\ (pc = "prepared" /\ b # <<>>) =>
              /\ grid = OutRows(b)
              /\ \A i \in DOMAIN grid :
                    /\ grid[i].scored_time \in BatchTimes(b)
                    /\ grid[i].miner_id \in Participants(b)
              /\ \A j \in DOMAIN b :
                    \E i \in RowsAt(b[j].miner_id, b[j].scored_time) :
                        grid[i].prompt_score_v3 = b[j].prompt_score_v3

\* a record on the last minute of the interval, earlier than every record that
\* is kept, is discarded, and the grid differs from the one of the whole batch
C11_Witness ==
    /\ pc = "prepared"
    /\ grid # <<>>
    /\ LET b == OutsideBlackout IN
          /\ b # <<>>
          /\ \E i \in DOMAIN df :
                /\ df[i].start_time = exclude_end
                /\ df[i].scored_time < T0(b)
          /\ grid # OutRows(df)

\* C19: for every record of the surviving batch that holds a score, records of
\* new participants included, the grid has a row for its (participant,
\* scored_time) that carries the record's own prompt_score_v3, score_details_v3
\* and asset unchanged.
C19_RealObservationsUntouched ==
    LET b == Batch IN GridReturned(b) =>
        \A j \in DOMAIN b :
            b[j].prompt_score_v3 # <<>> =>
                \E i \in RowsAt(b[j].miner_id, b[j].scored_time) :
                    /\ grid[i].prompt_score_v3 = b[j].prompt_score_v3
                    /\ grid[i].score_details_v3 = b[j].score_details_v3
                    /\ grid[i].asset = b[j].asset

\* the number of rows of g equal to row
RowCount(g, row) == Cardinality({i \in DOMAIN g : g[i] = row})

\* g and h hold the same rows, whatever their order
SameRows(g, h) ==
    /\ Len(g) = Len(h)
    /\ \A i \in DOMAIN g : RowCount(g, g[i]) = RowCount(h, g[i])

\* C20: the grid built from the batch holds the same rows as the grid built
\* from the same records in the opposite row order.
C20_OrderIndependence ==
    LET b == Batch IN GridReturned(b) =>
        SameRows(grid, prepare_df_for_moving_average(Reverse(df)))

----------------------------------------------------------------------------
(* Properties of compute_smoothed_score *)

RECURSIVE SumFn(_)
\* the sum of the values of a function with a finite domain
SumFn(f) ==
    IF DOMAIN f = {} THEN 0
    ELSE LET x == CHOOSE y \in DOMAIN f : TRUE
         IN  f[x] + SumFn([y \in DOMAIN f \ {x} |-> f[y]])

GridMiners == {grid[i].miner_id : i \in DOMAIN grid}

\* the rolling average computed for miner m
RollingAvgOf(m) ==
    rolling_avg_data[CHOOSE i \in DOMAIN rolling_avg_data :
                        rolling_avg_data[i].miner_id = m].rolling_avg

Resolved(m) == miner_uids[m] # <<>>

\* the softmax weight of a resolved miner: the weights follow miner_id order
WeightOf(m) ==
    reward_weight_list[Cardinality({n \in GridMiners : Resolved(n) /\ n <= m})]

Emitted(m) == \E k \in DOMAIN result.rewards : result.rewards[k].miner_id = m

RewardOf(m) ==
    result.rewards[CHOOSE k \in DOMAIN result.rewards :
                      result.rewards[k].miner_id = m]

\* the rows of miner m with scored_time in (scored_time - window_days,
\* scored_time] and neither score nor asset missing
UsedRows(m) ==
    {i \in DOMAIN grid :
        /\ grid[i].miner_id = m
        /\ grid[i].scored_time \in (scored_time - window_days + 1)..scored_time
        /\ grid[i].prompt_score_v3 # <<>>
        /\ grid[i].asset # "NaN"}

Listed(i) == grid[i].asset \in {"BTC", "ETH", "XAU", "SOL"}

Coef(i) ==
    IF grid[i].asset = "BTC" THEN 1000
    ELSE IF grid[i].asset = "ETH" THEN 621
    ELSE IF grid[i].asset = "XAU" THEN 1455
    ELSE IF grid[i].asset = "SOL" THEN 502
    ELSE 0

Score(i) == grid[i].prompt_score_v3[1]

\* the batch of the scenario of C3: (p1, BTC, t1, 0.5), (p1, BTC, t2, 0.3),
\* (p2, BTC, t1, 0.4), window 10 days, beta 1
Scenario ==
    /\ {<<df[i].miner_id, df[i].asset, df[i].scored_time, df[i].prompt_score_v3>>
          : i \in DOMAIN df}
         = {<<1, "BTC", 1, <<5>>>>, <<1, "BTC", 2, <<3>>>>, <<2, "BTC", 1, <<4>>>>}
    /\ Len(df) = 3
    /\ window_days = 10
    /\ softmax_beta = 1

EmittedWeightsProper ==
    \A k \in DOMAIN result.rewards :
        /\ ~result.rewards[k].reward_weight.nan
        /\ result.rewards[k].reward_weight.num > 0
        /\ result.rewards[k].reward_weight.num <= result.rewards[k].reward_weight.den

SomeFinite ==
    \E n \in GridMiners : Resolved(n) /\ RollingAvgOf(n).kind = "finite"

C5_WeightsSumToOne ==
    (pc = "done" /\ result.kind = "list") =>
        /\ EmittedWeightsProper
        /\ result.rewards # <<>> =>
              SumSeq([k \in DOMAIN result.rewards |->
                        result.rewards[k].reward_weight.num])
                 = result.rewards[1].reward_weight.den
        /\ \A k \in DOMAIN result.rewards :
              result.rewards[k].reward_weight.den = result.rewards[1].reward_weight.den
        /\ (SomeFinite /\ \A n \in GridMiners :
                             Resolved(n) => RollingAvgOf(n).kind = "finite")
              => result.rewards # <<>>

\* two resolved participants with finite rolling averages, one of them dropped
\* because its weight rounds to exactly 0
C5_Witness ==
    /\ pc = "done"
    /\ Len(rolling_avg_data) = 2
    /\ \A n \in GridMiners : Resolved(n) /\ RollingAvgOf(n).kind = "finite"
    /\ Len(result.rewards) = 1

CountOf(m, a) == Cardinality({i \in UsedRows(m) : grid[i].asset = a})

\* the divisor of the slice of miner m: the sum over the assets a of the table
\* of coefficient[a] * (number of rows of asset a in the slice)
Divisor(m) ==
    1000 * CountOf(m, "BTC") + 621 * CountOf(m, "ETH")
        + 1455 * CountOf(m, "XAU") + 502 * CountOf(m, "SOL")

\* C12: for a slice whose assets are all in the coefficient table, the series
\* returned by apply_per_asset_coefficients holds, row by row, raw_score *
\* coefficient[asset of the row] over the divisor computed from the rows of
\* that very slice.
C12_Normalizer ==
    (pc = "done" /\ grid # <<>>) =>
        \A m \in GridMiners :
            (\A i \in UsedRows(m) : Listed(i)) =>
                LET rows == SortedSeq(UsedRows(m))
                IN  /\ Len(normalized_scores[m]) = Len(rows)
                    /\ \A k \in 1..Len(rows) :
                          /\ normalized_scores[m][k].num
                                = Score(rows[k]) * Coef(rows[k])
                          /\ normalized_scores[m][k].den = Divisor(m)

\* a slice of one BTC row and one ETH row (divisor 1.621) next to, or instead
\* of, a slice of one row (divisor of that row's coefficient alone)
C12_Witness ==
    /\ pc = "done"
    /\ \E m \in GridMiners :
          /\ CountOf(m, "BTC") = 1
          /\ CountOf(m, "ETH") = 1
          /\ Cardinality(UsedRows(m)) = 2
          /\ \A k \in 1..2 : normalized_scores[m][k].den = 1621

\* the grid without the rows of the participants whose miner_uid is null
ResolvedGrid == SelectSeq(grid, LAMBDA r : Resolved(r.miner_id))

\* C13: a participant whose resolved miner_uid is null is never emitted and is
\* removed before the softmax: there is one weight per resolved participant, and
\* the emitted list is the one obtained from the grid without the rows of the
\* unresolved participants; every emitted record has a non-null miner_uid and
\* the participant's own rolling_avg as smoothed_score.
C13_UnresolvedFiltered ==
    (pc = "done" /\ grid # <<>>) =>
        /\ \A k \in DOMAIN result.rewards :
              /\ result.rewards[k].miner_uid # <<>>
              /\ result.rewards[k].miner_uid = miner_uids[result.rewards[k].miner_id]
              /\ result.rewards[k].smoothed_score
                    = RollingAvgOf(result.rewards[k].miner_id)
        /\ \A m \in GridMiners : ~Resolved(m) => ~Emitted(m)
        /\ Len(reward_weight_list)
              = Cardinality({m \in GridMiners : Resolved(m)})
        /\ result.rewards =
              IF ResolvedGrid = <<>> THEN <<>>
              ELSE compute_smoothed_score(miner_uids, ResolvedGrid, window_days,
                                          scored_time, softmax_beta).rewards

\* an unresolved participant with a finite rolling average next to a resolved
\* one that is emitted with the whole weight
C13_Witness ==
    /\ pc = "done"
    /\ \E m \in GridMiners, n \in GridMiners :
          /\ ~Resolved(m)
          /\ RollingAvgOf(m).kind = "finite"
          /\ Emitted(n)
          /\ RewardOf(n).reward_weight.num = RewardOf(n).reward_weight.den

\* C7: when a row given to apply_per_asset_coefficients carries an asset that the
\* coefficient table does not list, the call fails and no reward list is returned.
C7_UnknownAssetFatal ==
    (pc = "done" /\ \E m \in GridMiners : \E i \in UsedRows(m) : ~Listed(i))
        => result.kind = "error"

\* C8 as stated: an empty input batch yields an empty list, not a null value.
C8_Original ==
    (pc = "done" /\ grid = <<>>) =>
        (result.kind = "list" /\ result.rewards = <<>>)

\* C8 amended: an empty input batch yields None (no list, no error), for every
\* window_days, scored_time and beta.
C8_EmptyBatchNone ==
    (pc = "done" /\ grid = <<>>) =>
        (result.kind = "None" /\ result.rewards = <<>>)

C8_Witness == pc = "done" /\ grid = <<>> /\ result.kind = "None"

----------------------------------------------------------------------------
(* Properties of the time helpers *)

\* the midnight of the day of dt, and the boundary reached without the extra
DayStart(dt) == (dt \div DayTicks) * DayTicks
Boundary == rounding.rounded_time - rounding.extra_seconds * TicksPerSecond
IntervalTicks == rounding.in_seconds * TicksPerSecond

----------------------------------------------------------------------------
(* Properties of Validator.forward_score *)

\* the owner record: the one with miner_id 0
HasOwnerRecord(data) == \E i \in DOMAIN data : data[i].miner_id = 0

\* C14: weights are sent only in a call of forward_score in which
\* calculate_rewards_and_update_scores reported success and
\* calculate_moving_average_and_update_rewards returned a non-empty list, and
\* then the table sent is that list followed by the owner record; a call with
\* any other outcome returns with nothing sent and no owner record appended.
C14_SkipEmptyEpochs ==
    validator.pc # "off" =>
        /\ validator.pc = "send" =>
              (validator.success /\ validator.returned # <<>>)
        /\ \A e \in DOMAIN validator.log :
              LET o == validator.log[e] IN
                /\ o.sent <=> (o.success /\ o.returned # <<>>)
                /\ o.sent =>
                      /\ Len(o.moving_averages_data) = Len(o.returned) + 1
                      /\ SubSeq(o.moving_averages_data, 1, Len(o.returned))
                            = o.returned
                      /\ o.moving_averages_data[Len(o.returned) + 1].miner_id = 0
                /\ ~o.sent =>
                      /\ o.moving_averages_data = o.returned
                      /\ ~HasOwnerRecord(o.moving_averages_data)
        /\ Len(validator.weights_history)
              = Cardinality({e \in DOMAIN validator.log : validator.log[e].sent})
        /\ \A k \in DOMAIN validator.weights_history :
              /\ Len(validator.weights_history[k]) >= 2
              /\ HasOwnerRecord(validator.weights_history[k])

\* an epoch with an empty list, for which nothing is sent, and an epoch with
\* weights sent, in one run
C14_Witness ==
    /\ validator.pc = "idle"
    /\ \E a \in DOMAIN validator.log :
          /\ validator.log[a].success
          /\ validator.log[a].returned = <<>>
          /\ ~validator.log[a].sent
    /\ \E b \in DOMAIN validator.log : validator.log[b].sent
    /\ Len(validator.weights_history) = 1

----------------------------------------------------------------------------
(* Properties of simulate_crypto_price_paths *)

RECURSIVE GrowthNum(_, _)
\* the numerator of the product of the first k factors 1 + r_i of one draw
GrowthNum(pcts, k) ==
    IF k = 0 THEN 1 ELSE (2 + pcts[k]) * GrowthNum(pcts, k - 1)

\* C15: the result has exactly num_simulations paths, each of length
\* floor(time_length / time_increment) + 1 (289 for 86400 / 300); element 0 of
\* a path is current_price exactly and element k is current_price times the
\* product of (1 + r_i), i = 1..k, over that path's own draw.
C15_PathShape ==
    simulation.pc = "returned" =>
        /\ Len(simulation.price_paths) = simulation.num_simulations
        /\ \A p \in DOMAIN simulation.price_paths :
              LET path == simulation.price_paths[p]
                  own == simulation.price_change_pcts[p]
              IN  /\ Len(path)
                        = (simulation.time_length \div simulation.time_increment) + 1
                  /\ path[1] = [num |-> simulation.current_price, den |-> 1]
                  /\ \A k \in 1..(Len(path) - 1) :
                        /\ path[k + 1].num
                              = simulation.current_price * GrowthNum(own, k)
                        /\ path[k + 1].den = Pow2(k)
        /\ num_steps(300, 86400) + 1 = 289

\* two paths of at least two steps that differ, both starting at current_price
C15_Witness ==
    /\ simulation.pc = "returned"
    /\ Len(simulation.price_paths) = 2
    /\ Len(simulation.price_paths[1]) >= 3
    /\ simulation.price_paths[1] # simulation.price_paths[2]
    /\ simulation.price_paths[1][1] = simulation.price_paths[2][1]

----------------------------------------------------------------------------
(* Properties of merge_and_save_data *)

TripleOf(r) == <<r.miner_uid, r.asset, r.scored_time>>

\* no two rows of t have the same (miner_uid, asset, scored_time)
UniqueTriples(t) ==
    \A i \in DOMAIN t, j \in DOMAIN t : TripleOf(t[i]) = TripleOf(t[j]) => i = j

\* every row of t is the most recently written row of its triple among the rows
\* of existing and new: the one with the largest stamp
LatestKept(t, all) ==
    /\ {TripleOf(t[i]) : i \in DOMAIN t} = {TripleOf(all[j]) : j \in DOMAIN all}
    /\ \A i \in DOMAIN t :
          /\ \E j \in DOMAIN all : all[j] = t[i]
          /\ \A j \in DOMAIN all :
                TripleOf(all[j]) = TripleOf(t[i]) => all[j].crps <= t[i].crps

NoExisting == storage.existing_df = <<>> \/ storage.existing_df[1] = <<>>

AllWritten ==
    IF storage.existing_df = <<>> THEN storage.new_df
    ELSE storage.existing_df[1] \o storage.new_df

----------------------------------------------------------------------------
(* Properties of Validator.forward_prompt *)

\* the entries of the trace made for input i, in order
Segment(i) == SelectSeq(prompt.trace, LAMBDA e : e.input = i)

\* the positions in a segment of the entries of one call
Positions(seg, op) == {k \in DOMAIN seg : seg[k].op = op}

\* the iteration of input i is over: the loop moved on or is back at its head
Finished(i) ==
    i < prompt.index \/ (i = prompt.index /\ prompt.pc \in {"loop", "done"})

\* no miner was available in the iteration of input i
NoMinersAt(seg) ==
    \E k \in DOMAIN seg : seg[k].op = "get_available_miners" /\ seg[k].arg = 0

\* the input is XAU and the market was found closed
XauSkippedAt(i, seg) ==
    /\ simulation_input_list[i] = "XAU"
    /\ \E k \in DOMAIN seg : seg[k].op = "should_skip_xau" /\ seg[k].arg = 1

\* C21: forward_prompt takes the simulation inputs in list order; in every
\* iteration, whichever branch is taken, forward_score is called once,
\* returns, and is followed by one wait_till_next_simulation before the next
\* input is taken; where miners are queried the query has returned before
\* forward_score is called; no query is made when no miner is available or
\* when XAU is skipped because its market is closed.
C21_CycleOrdering ==
    prompt.pc # "off" =>
      LET tr == prompt.trace
      IN  /\ tr # <<>> => tr[1].input = 1
          /\ \A k \in 1..(Len(tr) - 1) :
                \/ tr[k + 1].input = tr[k].input
                \/ /\ tr[k + 1].input = tr[k].input + 1
                   /\ tr[k].op = "wait_till_next_simulation"
                   /\ tr[k + 1].op = "get_available_miners"
          /\ \A i \in 1..prompt.index :
                LET seg == Segment(i)
                    calls == Positions(seg, "forward_score")
                    returns == Positions(seg, "forward_score returned")
                    waits == Positions(seg, "wait_till_next_simulation")
                    queries ==
                        Positions(seg, "query_available_miners_and_save_responses")
                    skipped == NoMinersAt(seg) \/ XauSkippedAt(i, seg)
                IN  /\ Cardinality(calls) <= 1
                    /\ Cardinality(returns) <= 1
                    /\ Cardinality(waits) <= 1
                    /\ Cardinality(queries) <= 1
                    /\ \A r \in returns : \E c \in calls : c < r
                    /\ \A w \in waits : \E r \in returns : r < w
                    /\ \A q \in queries : \A c \in calls : q < c
                    /\ skipped => queries = {}
                    /\ (~skipped /\ calls # {}) => queries # {}
                    /\ Finished(i) =>
                          Cardinality(returns) = 1 /\ Cardinality(waits) = 1

\* a finished pass in which each of the three branches was taken
C21_Witness ==
    /\ prompt.pc = "done"
    /\ \E i \in DOMAIN simulation_input_list : NoMinersAt(Segment(i))
    /\ XauSkippedAt(3, Segment(3)) /\ ~NoMinersAt(Segment(3))
    /\ \E i \in DOMAIN simulation_input_list :
          Positions(Segment(i), "query_available_miners_and_save_responses") # {}
    /\ \A i \in DOMAIN simulation_input_list :
          Positions(Segment(i), "forward_score returned") # {}

----------------------------------------------------------------------------
(* Properties of fetch_historical_data *)

\* the kinds of the responses of the attempts made, in order
Kinds == [k \in DOMAIN fetch.responses |-> fetch.responses[k].kind]

\* what holds at every point of a call
RetryDiscipline ==
    LET n == Len(fetch.responses)
    IN  /\ n <= fetch.max_retries
        /\ \A k \in 1..(n - 1) : Kinds[k] = "RequestException"
        /\ fetch.sleeps = <<>> \/ Len(fetch.sleeps) < fetch.max_retries
        /\ Len(fetch.sleeps) \in {n - 1, n}
        /\ Len(fetch.sleeps) = n => fetch.pc # "returned" \/ n = 0
        /\ \A k \in DOMAIN fetch.sleeps : fetch.sleeps[k] = fetch.retry_delay * k

\* what a call that has returned has returned
ReturnValue ==
    LET n == Len(fetch.responses)
    IN  fetch.pc = "returned" =>
          /\ fetch.result.kind = "list"
          /\ n = 0 => fetch.max_retries = 0 /\ fetch.result.value = <<>>
          /\ n > 0 =>
                /\ Len(fetch.sleeps) = n - 1
                /\ Kinds[n] = "list" =>
                      fetch.result.value = fetch.responses[n].data
                /\ Kinds[n] \in {"not a list", "Exception"} =>
                      fetch.result.value = <<>>
                /\ Kinds[n] = "RequestException" =>
                      n = fetch.max_retries /\ fetch.result.value = <<>>

\* C22: fetch_historical_data always returns, after at most max_retries
\* requests; only a request-level failure is followed by another attempt,
\* after a sleep of retry_delay times the number of the failed attempt, and
\* there is no sleep after the last attempt; it returns the list of the
\* first list-shaped response, the empty list once max_retries attempts
\* have failed, and the empty list at once on a response of another shape
\* or on another error; what it gives its caller is always a list.
C22_BoundedRetry ==
    /\ [](fetch.pc # "off" => RetryDiscipline /\ ReturnValue)
    /\ (fetch.pc # "off") ~> (fetch.pc = "returned")

\* every one of three attempts failed: three requests, sleeps of one and two
\* delays between them, none after the last, and the empty list returned
C22_Witness ==
    /\ fetch.pc = "returned"
    /\ fetch.max_retries = 3
    /\ Kinds = <<"RequestException", "RequestException", "RequestException">>
    /\ fetch.sleeps = <<fetch.retry_delay, 2 * fetch.retry_delay>>
    /\ fetch.result.value = <<>>

====
